---- MODULE Spec2Model ----
(***************************************************************************)
(* Model of folder_sync.py: one-way periodic synchronisation of a replica  *)
(* directory tree with a source directory tree.                            *)
(*                                                                         *)
(* The file system is a function from paths (sequences of names) to        *)
(* entries.  sync_folders is modelled statement by statement with an       *)
(* explicit call stack; the main block is the program counter pc.          *)
(***************************************************************************)
EXTENDS Integers, Sequences, FiniteSets, TLC

VARIABLES
    fs,        \* the file system: path -> entry
    pc,        \* position of the main block: "boot", "loop", "sync", "sleep",
               \* "exit1" (exit(1)), "terminated" (KeyboardInterrupt handled),
               \* "crashed" (uncaught exception)
    stack,     \* the activations of sync_folders, innermost first
    log,       \* the lines written by log_and_print
    cycles,    \* number of cycles started
    raised,    \* the exception that ended the process, or NoExc
    envCount,  \* number of changes made by other processes
    pending,   \* those made since the last cycle started
    applied    \* those the current (or last) cycle found when it started

vars == <<fs, pc, stack, log, cycles, raised, envCount, pending, applied>>

(***************************************************************************)
(* Bounds of the model.                                                    *)
(***************************************************************************)
MaxCycles == 2
MaxEnvChanges == 1

(***************************************************************************)
(* The file-system universe.                                               *)
(***************************************************************************)
source_folder == <<"src">>
replica_folder == <<"out", "rep">>

\* Names in the order of Python's list.sort() (code points).
NameOrder == <<"a", "b", "tags", "x">>
Names == {NameOrder[i] : i \in 1..Len(NameOrder)}

\* Paths relative to a root that the universe contains.
RelPaths == {<<>>, <<"a">>, <<"a", "x">>, <<"b">>, <<"b", "x">>, <<"tags">>}

Paths == {<<"out">>} \cup {source_folder \o r : r \in RelPaths}
                     \cup {replica_folder \o r : r \in RelPaths}

Data == {"hello", "jello"}

Absent == [kind |-> "none", data |-> "", ok |-> TRUE]
Dir == [kind |-> "dir", data |-> "", ok |-> TRUE]
File(d) == [kind |-> "file", data |-> d, ok |-> TRUE]

\* os.stat-like lookup; a path outside the universe does not exist.
Get(f, p) == IF p \in DOMAIN f THEN f[p] ELSE Absent

Parent(p) == SubSeq(p, 1, Len(p) - 1)
IsPrefix(p, q) == Len(p) <= Len(q) /\ SubSeq(q, 1, Len(p)) = p

\* os.path.join(dir, name)
join(p, n) == Append(p, n)

exists(f, p) == Get(f, p).kind # "none"
isdir(f, p) == Get(f, p).kind = "dir"
isfile(f, p) == Get(f, p).kind = "file"

\* A directory with mode 000 can be neither listed nor written into; the
\* root of the file system (the empty path) always can.
Usable(f, p) == p = <<>> \/ (isdir(f, p) /\ Get(f, p).ok)

Children(f, p) == {n \in Names : exists(f, join(p, n))}

Sorted(S) == SelectSeq(NameOrder, LAMBDA n : n \in S)

\* Every entry has a directory as its parent.
WellFormed(f) ==
    \A p \in DOMAIN f :
        (exists(f, p) /\ Len(p) > 1) => isdir(f, Parent(p))


(***************************************************************************)
(* Results of the library calls: the new file system and the exception     *)
(* raised, if any.                                                         *)
(***************************************************************************)
NoExc == [action |-> "none", path |-> <<>>]
Exc(a, p) == [action |-> a, path |-> p]
Done(f) == [fs |-> f, exc |-> NoExc]
Fail(f, a, p) == [fs |-> f, exc |-> Exc(a, p)]

\* open(path, 'rb') succeeds.
Readable(f, p) == isfile(f, p) /\ Get(f, p).ok /\ Usable(f, Parent(p))

\* open(path, 'wb') succeeds.
Writable(f, p) ==
    /\ Usable(f, Parent(p))
    /\ \/ ~exists(f, p)
       \/ isfile(f, p) /\ Get(f, p).ok

\* hashlib.md5(bytes).hexdigest() of the contents of the universe.
MD5(d) ==
    CASE d = "hello" -> "5d41402abc4b2a76b9719d911017c592"
      [] d = "jello" -> "7aa6991a62353dd2761280cf592542dc"
      [] OTHER -> "d41d8cd98f00b204e9800998ecf8427e"

\* calculate_md5: the digest, or "" when open() raises.
calculate_md5(f, file_path) ==
    IF Readable(f, file_path) THEN MD5(Get(f, file_path).data) ELSE ""

\* Mutant of files_are_different: the digest of the source is compared with
\* something that is never equal to it, so every common file "differs".
files_are_different_always(f, src_path, dest_path) ==
    IF calculate_md5(f, src_path) = ""
    THEN [exc |-> Exc("read", src_path), differ |-> FALSE]
    ELSE IF calculate_md5(f, dest_path) = ""
    THEN [exc |-> Exc("read", dest_path), differ |-> FALSE]
    ELSE [exc |-> NoExc, differ |-> TRUE]

\* files_are_different: src is hashed first, then dest.
files_are_different(f, src_path, dest_path) ==
    IF calculate_md5(f, src_path) = ""
    THEN [exc |-> Exc("read", src_path), differ |-> FALSE]
    ELSE IF calculate_md5(f, dest_path) = ""
    THEN [exc |-> Exc("read", dest_path), differ |-> FALSE]
    ELSE [exc |-> NoExc,
          differ |-> calculate_md5(f, src_path) # calculate_md5(f, dest_path)]

\* os.makedirs(p): p and every missing ancestor become directories.
makedirs(f, p) ==
    [q \in DOMAIN f |->
        IF IsPrefix(q, p) /\ ~exists(f, q) THEN Dir ELSE f[q]]

\* shutil.copy2(src, dst) for a dst that is no directory: content and mode.
copy2(f, src, dst) ==
    IF ~Readable(f, src) THEN Fail(f, "copy", src)
    ELSE IF ~Writable(f, dst) THEN Fail(f, "copy", dst)
    ELSE Done([f EXCEPT ![dst] = File(f[src].data)])

RECURSIVE copytree(_, _, _)
RECURSIVE CopyEntries(_, _, _, _)

\* The loop of shutil.copytree over the entries of src: every entry is tried,
\* the errors are collected and raised at the end.
CopyEntries(f, src, dst, names) ==
    IF names = <<>> THEN Done(f)
    ELSE LET n == Head(names)
             one == IF isdir(f, join(src, n))
                    THEN copytree(f, join(src, n), join(dst, n))
                    ELSE copy2(f, join(src, n), join(dst, n))
             rest == CopyEntries(one.fs, src, dst, Tail(names))
         IN  [fs |-> rest.fs,
              exc |-> IF one.exc # NoExc THEN one.exc ELSE rest.exc]

\* shutil.copytree(src, dst): src is listed, dst is created, entries copied.
copytree(f, src, dst) ==
    IF ~Usable(f, src) THEN Fail(f, "list", src)
    ELSE IF exists(f, dst) \/ ~Usable(f, Parent(dst)) THEN Fail(f, "copy", dst)
    ELSE CopyEntries([f EXCEPT ![dst] = Dir], src, dst, Sorted(Children(f, src)))

RECURSIVE rmtree(_, _)
RECURSIVE RemoveEntries(_, _, _)

\* The loop of shutil.rmtree over the entries of p: the first error is raised.
RemoveEntries(f, p, names) ==
    IF names = <<>> THEN Done(f)
    ELSE LET n == Head(names)
             one == IF isdir(f, join(p, n))
                    THEN rmtree(f, join(p, n))
                    ELSE Done([f EXCEPT ![join(p, n)] = Absent])
         IN  IF one.exc # NoExc THEN one
             ELSE RemoveEntries(one.fs, p, Tail(names))

\* shutil.rmtree(p): p is opened and listed, emptied, removed.
rmtree(f, p) ==
    IF ~Usable(f, p) \/ ~Usable(f, Parent(p)) THEN Fail(f, "delete", p)
    ELSE LET inner == RemoveEntries(f, p, Sorted(Children(f, p)))
         IN  IF inner.exc # NoExc THEN inner
             ELSE Done([inner.fs EXCEPT ![p] = Absent])

\* os.remove(p)
remove(f, p) ==
    IF ~Usable(f, Parent(p)) \/ ~isfile(f, p) THEN Fail(f, "delete", p)
    ELSE Done([f EXCEPT ![p] = Absent])

(***************************************************************************)
(* filecmp.dircmp(source, replica) with its default ignore and hide lists. *)
(***************************************************************************)
DEFAULT_IGNORES ==
    {"RCS", "CVS", "tags", ".git", ".hg", ".bzr", "_darcs", "__pycache__"}

\* dircmp.phase0: the filtered, sorted listing of one directory.
listing(f, p) == Sorted(Children(f, p) \ DEFAULT_IGNORES)

InSeq(s, n) == \E i \in 1..Len(s) : s[i] = n

\* dircmp.phase1
left_only(f, source, replica) ==
    SelectSeq(listing(f, source), LAMBDA n : ~InSeq(listing(f, replica), n))
right_only(f, source, replica) ==
    SelectSeq(listing(f, replica), LAMBDA n : ~InSeq(listing(f, source), n))
common(f, source, replica) ==
    SelectSeq(listing(f, source), LAMBDA n : InSeq(listing(f, replica), n))

\* dircmp.phase2: a common name is a common directory or a common file only
\* when both sides can be stat'ed and have the same type.
SameType(f, source, replica, n) ==
    /\ Usable(f, source) /\ Usable(f, replica)
    /\ exists(f, join(source, n)) /\ exists(f, join(replica, n))
    /\ Get(f, join(source, n)).kind = Get(f, join(replica, n)).kind
common_dirs(f, source, replica, names) ==
    SelectSeq(names, LAMBDA n : SameType(f, source, replica, n)
                                  /\ isdir(f, join(source, n)))
common_files(f, source, replica, names) ==
    SelectSeq(names, LAMBDA n : SameType(f, source, replica, n)
                                  /\ isfile(f, join(source, n)))


(***************************************************************************)
(* The log written by log_and_print: one record per line.                  *)
(***************************************************************************)
Line(m, s, d) == [msg |-> m, src |-> s, dst |-> d]

\* Mutant of log_and_print: the message reaches the log twice.
log_and_print_twice(l, m, s, d) == Append(Append(l, Line(m, s, d)), Line(m, s, d))

log_and_print(l, m, s, d) == Append(l, Line(m, s, d))

ActionMsgs == {"Created directory", "Copied directory", "Copied file",
               "Removed directory", "Removed file", "Updated file"}

MainMsgs == {"Source folder does not exist!", "PERIODIC synchronization start",
             "INTERVAL of synchronization", "START synchronization cycle.",
             "END Synchronization cycle.",
             "TERMINATED Synchronization by user."}

(***************************************************************************)
(* One activation of sync_folders(source, replica): its arguments, its     *)
(* position and the attributes of its dircmp object computed so far.       *)
(***************************************************************************)
\* Mutant of NewFrame: the two arguments of the call are swapped.
NewFrame_swapped(source, replica) ==
    [source |-> replica, replica |-> source, at |-> "enter",
     left_only |-> <<>>, right_only |-> <<>>, common |-> <<>>,
     common_files |-> <<>>, common_dirs |-> <<>>]

NewFrame(source, replica) ==
    [source |-> source, replica |-> replica, at |-> "enter",
     left_only |-> <<>>, right_only |-> <<>>, common |-> <<>>,
     common_files |-> <<>>, common_dirs |-> <<>>]

Top == Head(stack)

\* An exception no handler of the program catches: the interpreter unwinds
\* the stack and the process ends with a traceback on stderr.
Uncaught(e) ==
    /\ raised' = e
    /\ pc' = "crashed"
    /\ stack' = <<>>

(***************************************************************************)
(* The initial states: the file system the program is started on.          *)
(***************************************************************************)
TreeOK(t) ==
    /\ t[<<>>] \in {Absent, Dir}
    /\ \A r \in RelPaths : (t[r] # Absent /\ r # <<>>) => t[Parent(r)] = Dir
    /\ t[<<"b", "x">>] # Dir

SourceTrees ==
    {t \in [RelPaths -> {Absent, Dir, File("hello")}] :
        /\ TreeOK(t)
        /\ t[<<>>] = Absent \/ t[<<"a">>] # Absent \/ t[<<"b">>] # Absent
        /\ t[<<"a">>] = Dir => t[<<"a", "x">>] = File("hello")
        /\ t[<<"b">>] = Dir =>
              t[<<"b", "x">>] = File("hello") /\ t[<<"a">>] = Dir
        /\ t[<<"tags">>] = Absent}

ReplicaTrees ==
    {t \in [RelPaths -> {Absent, Dir, File("hello"), File("jello")}] :
        /\ TreeOK(t)
        /\ t[<<"a", "x">>] # Dir
        /\ t[<<"b">>] # File("jello")
        /\ t[<<"b">>] = Dir => t[<<"b", "x">>] = Absent /\ t[<<"a">>] = Dir
        /\ t[<<"tags">>] \in {Absent, File("jello")}
        /\ t[<<"tags">>] # Absent => t[<<"b">>] = Absent}

MkFS(st, rt, out) ==
    [p \in Paths |->
        IF p = <<"out">> THEN out
        ELSE IF IsPrefix(source_folder, p)
        THEN st[SubSeq(p, Len(source_folder) + 1, Len(p))]
        ELSE rt[SubSeq(p, Len(replica_folder) + 1, Len(p))]]

Init ==
    /\ fs \in {MkFS(st, rt, out) : st \in SourceTrees, rt \in ReplicaTrees,
                                    out \in {Absent, Dir}}
    /\ WellFormed(fs)
    /\ pc = "boot"
    /\ stack = <<>>
    /\ log = <<>>
    /\ cycles = 0
    /\ raised = NoExc
    /\ envCount = 0
    /\ pending = <<>>
    /\ applied = <<>>


(***************************************************************************)
(* The main block.                                                         *)
(***************************************************************************)
\* Mutant of Startup: the source folder is not checked.
Startup_unchecked ==
    /\ pc = "boot"
    /\ log' = Append(Append(log, Line("PERIODIC synchronization start",
                                       source_folder, replica_folder)),
                     Line("INTERVAL of synchronization", <<>>, <<>>))
    /\ pc' = "loop"
    /\ UNCHANGED <<fs, stack, cycles, raised, envCount, pending, applied>>

\* Lines 148-153: the existence check of the source folder and the banner.
Startup ==
    /\ pc = "boot"
    /\ IF ~exists(fs, source_folder)
       THEN /\ log' = log_and_print(log, "Source folder does not exist!",
                                    source_folder, <<>>)
            /\ pc' = "exit1"
       ELSE /\ log' = log_and_print(
                        log_and_print(log, "PERIODIC synchronization start",
                                      source_folder, replica_folder),
                        "INTERVAL of synchronization", <<>>, <<>>)
            /\ pc' = "loop"
    /\ UNCHANGED <<fs, stack, cycles, raised, envCount, pending, applied>>

\* Lines 156-158: the START line and the call of sync_folders on the roots;
\* from the second cycle on, time.sleep has returned first.
CycleStart ==
    /\ pc \in {"loop", "sleep"}
    /\ cycles < MaxCycles
    /\ log' = log_and_print(log, "START synchronization cycle.", <<>>, <<>>)
    /\ stack' = <<NewFrame(source_folder, replica_folder)>>
    /\ pc' = "sync"
    /\ cycles' = cycles + 1
    /\ applied' = pending
    /\ pending' = <<>>
    /\ UNCHANGED <<fs, raised, envCount>>

\* Lines 159-160: sync_folders has returned; the END line, then time.sleep.
CycleEnd ==
    /\ pc = "sync"
    /\ stack = <<>>
    /\ log' = log_and_print(log, "END Synchronization cycle.", <<>>, <<>>)
    /\ pc' = "sleep"
    /\ UNCHANGED <<fs, stack, cycles, raised, envCount, pending, applied>>

\* Mutant of Interrupt: the except clause logs nothing.
Interrupt_unlogged ==
    /\ pc \in {"loop", "sync", "sleep"}
    /\ pc' = "terminated"
    /\ stack' = <<>>
    /\ UNCHANGED <<fs, log, cycles, raised, envCount, pending, applied>>

\* Lines 161-162: KeyboardInterrupt raised inside the try block.
Interrupt ==
    /\ pc \in {"loop", "sync", "sleep"}
    /\ log' = log_and_print(log, "TERMINATED Synchronization by user.",
                            <<>>, <<>>)
    /\ pc' = "terminated"
    /\ stack' = <<>>
    /\ UNCHANGED <<fs, cycles, raised, envCount, pending, applied>>

(***************************************************************************)
(* sync_folders, one statement group per action, on the top frame.         *)
(***************************************************************************)
\* Lines 89-98: the replica folder is created when missing, then dircmp lists
\* both directories (phase0 and phase1, at the first use of left_only).
Enter ==
    /\ pc = "sync" /\ stack # <<>> /\ Top.at = "enter"
    /\ LET missing == ~exists(fs, Top.replica)
           f1 == IF missing THEN makedirs(fs, Top.replica) ELSE fs
       IN  /\ fs' = f1
           /\ log' = IF missing
                     THEN log_and_print(log, "Created directory", <<>>,
                                        Top.replica)
                     ELSE log
           /\ IF ~Usable(f1, Top.source)
              THEN Uncaught(Exc("list", Top.source))
              ELSE IF ~Usable(f1, Top.replica)
              THEN Uncaught(Exc("list", Top.replica))
              ELSE /\ stack' = <<[Top EXCEPT
                          !.at = "loops",
                          !.left_only = left_only(f1, Top.source, Top.replica),
                          !.right_only = right_only(f1, Top.source, Top.replica),
                          !.common = common(f1, Top.source, Top.replica)]>>
                          \o Tail(stack)
                   /\ UNCHANGED <<pc, raised>>
    /\ UNCHANGED <<cycles, envCount, pending, applied>>

\* Lines 98-106: one iteration of the loop over comparison.left_only.
Copy ==
    /\ pc = "sync" /\ stack # <<>> /\ Top.at = "loops"
    /\ Top.left_only # <<>>
    /\ LET file == Head(Top.left_only)
           src_path == join(Top.source, file)
           dest_path == join(Top.replica, file)
           dir == isdir(fs, src_path)
           res == IF dir THEN copytree(fs, src_path, dest_path)
                         ELSE copy2(fs, src_path, dest_path)
       IN  /\ fs' = res.fs
           /\ IF res.exc # NoExc
              THEN Uncaught(res.exc) /\ UNCHANGED log
              ELSE /\ log' = log_and_print(log,
                               IF dir THEN "Copied directory"
                                      ELSE "Copied file",
                               src_path, dest_path)
                   /\ stack' = <<[Top EXCEPT
                                   !.left_only = Tail(Top.left_only)]>>
                               \o Tail(stack)
                   /\ UNCHANGED <<pc, raised>>
    /\ UNCHANGED <<cycles, envCount, pending, applied>>

\* Mutant of Remove: the loop over right_only does not wait for the end of
\* the loop over left_only.
Remove_first ==
    /\ pc = "sync" /\ stack # <<>> /\ Top.at = "loops"
    /\ Top.right_only # <<>>
    /\ LET file == Head(Top.right_only)
           replica_path == join(Top.replica, file)
           dir == isdir(fs, replica_path)
           res == IF dir THEN rmtree(fs, replica_path)
                         ELSE remove(fs, replica_path)
       IN  /\ fs' = res.fs
           /\ IF res.exc # NoExc
              THEN Uncaught(res.exc) /\ UNCHANGED log
              ELSE /\ log' = log_and_print(log,
                               IF dir THEN "Removed directory"
                                      ELSE "Removed file",
                               <<>>, replica_path)
                   /\ stack' = <<[Top EXCEPT
                                   !.right_only = Tail(Top.right_only)]>>
                               \o Tail(stack)
                   /\ UNCHANGED <<pc, raised>>
    /\ UNCHANGED <<cycles, envCount, pending, applied>>

\* Lines 108-116: one iteration of the loop over comparison.right_only.
Remove ==
    /\ pc = "sync" /\ stack # <<>> /\ Top.at = "loops"
    /\ Top.left_only = <<>> /\ Top.right_only # <<>>
    /\ LET file == Head(Top.right_only)
           replica_path == join(Top.replica, file)
           dir == isdir(fs, replica_path)
           res == IF dir THEN rmtree(fs, replica_path)
                         ELSE remove(fs, replica_path)
       IN  /\ fs' = res.fs
           /\ IF res.exc # NoExc
              THEN Uncaught(res.exc) /\ UNCHANGED log
              ELSE /\ log' = log_and_print(log,
                               IF dir THEN "Removed directory"
                                      ELSE "Removed file",
                               <<>>, replica_path)
                   /\ stack' = <<[Top EXCEPT
                                   !.right_only = Tail(Top.right_only)]>>
                               \o Tail(stack)
                   /\ UNCHANGED <<pc, raised>>
    /\ UNCHANGED <<cycles, envCount, pending, applied>>

\* Line 119, first use of comparison.common_files: dircmp.phase2 stats the
\* common names and splits them into common_dirs and common_files.
Classify ==
    /\ pc = "sync" /\ stack # <<>> /\ Top.at = "loops"
    /\ Top.left_only = <<>> /\ Top.right_only = <<>>
    /\ stack' = <<[Top EXCEPT
            !.at = "common",
            !.common_files =
                common_files(fs, Top.source, Top.replica, Top.common),
            !.common_dirs =
                common_dirs(fs, Top.source, Top.replica, Top.common)]>>
            \o Tail(stack)
    /\ UNCHANGED <<fs, pc, log, cycles, raised, envCount, pending, applied>>

\* Lines 118-124: one iteration of the loop over comparison.common_files.
Update ==
    /\ pc = "sync" /\ stack # <<>> /\ Top.at = "common"
    /\ Top.common_files # <<>>
    /\ LET file == Head(Top.common_files)
           src_path == join(Top.source, file)
           dest_path == join(Top.replica, file)
           cmp == files_are_different(fs, src_path, dest_path)
           res == IF cmp.exc # NoExc THEN [fs |-> fs, exc |-> cmp.exc]
                  ELSE IF cmp.differ THEN copy2(fs, src_path, dest_path)
                  ELSE Done(fs)
       IN  /\ fs' = res.fs
           /\ IF res.exc # NoExc
              THEN Uncaught(res.exc) /\ UNCHANGED log
              ELSE /\ log' = IF cmp.differ
                             THEN log_and_print(log, "Updated file",
                                                src_path, dest_path)
                             ELSE log
                   /\ stack' = <<[Top EXCEPT
                                   !.common_files = Tail(Top.common_files)]>>
                               \o Tail(stack)
                   /\ UNCHANGED <<pc, raised>>
    /\ UNCHANGED <<cycles, envCount, pending, applied>>

\* Mutant of Recurse: the recursive call does not wait for the end of the
\* loop over common_files.
Recurse_early ==
    /\ pc = "sync" /\ stack # <<>> /\ Top.at = "common"
    /\ Top.common_dirs # <<>>
    /\ LET common_dir == Head(Top.common_dirs)
       IN  stack' = <<NewFrame(join(Top.source, common_dir),
                               join(Top.replica, common_dir)),
                      [Top EXCEPT !.common_dirs = Tail(Top.common_dirs)]>>
                    \o Tail(stack)
    /\ UNCHANGED <<fs, pc, log, cycles, raised, envCount, pending, applied>>

\* Lines 126-128: one iteration of the loop over comparison.common_dirs, the
\* recursive call.
Recurse ==
    /\ pc = "sync" /\ stack # <<>> /\ Top.at = "common"
    /\ Top.common_files = <<>> /\ Top.common_dirs # <<>>
    /\ LET common_dir == Head(Top.common_dirs)
       IN  stack' = <<NewFrame(join(Top.source, common_dir),
                               join(Top.replica, common_dir)),
                      [Top EXCEPT !.common_dirs = Tail(Top.common_dirs)]>>
                    \o Tail(stack)
    /\ UNCHANGED <<fs, pc, log, cycles, raised, envCount, pending, applied>>

\* Mutant of Return: the activation never returns.
Return_never ==
    /\ pc = "sync" /\ stack # <<>> /\ Top.at = "common"
    /\ Top.common_files = <<>> /\ Top.common_dirs = <<>>
    /\ UNCHANGED vars

\* Line 128, falling off the end of sync_folders: the activation returns.
Return ==
    /\ pc = "sync" /\ stack # <<>> /\ Top.at = "common"
    /\ Top.common_files = <<>> /\ Top.common_dirs = <<>>
    /\ stack' = Tail(stack)
    /\ UNCHANGED <<fs, pc, log, cycles, raised, envCount, pending, applied>>


(***************************************************************************)
(* The environment: other processes change the two trees while the program *)
(* is not inside a cycle (before it starts, and during time.sleep).        *)
(***************************************************************************)
\* The replica tree has the relative paths, the types and the file contents
\* of the source tree.
Converged(f) ==
    \A r \in RelPaths :
        /\ Get(f, source_folder \o r).kind = Get(f, replica_folder \o r).kind
        /\ Get(f, source_folder \o r).data = Get(f, replica_folder \o r).data

EnvPaths == Paths \ {<<"out">>}
IsRoot(p) == p \in {source_folder, replica_folder}
InSource(p) == IsPrefix(source_folder, p)

Between ==
    /\ envCount < MaxEnvChanges
    /\ \/ pc = "boot"
       \/ pc = "sleep" /\ cycles < MaxCycles

Changed(op, p) ==
    /\ envCount' = envCount + 1
    /\ pending' = Append(pending,
                         [op |-> op, path |-> p, conv |-> Converged(fs)])
    /\ UNCHANGED <<pc, stack, log, cycles, raised, applied>>

\* A file is created, or the bytes of an existing file are replaced by
\* other bytes of the same length.
EnvWrite(p) ==
    /\ ~IsRoot(p) /\ isdir(fs, Parent(p)) /\ ~isdir(fs, p)
    /\ \E d \in Data :
        /\ IF exists(fs, p) THEN d # fs[p].data ELSE d = "hello"
        /\ fs' = [fs EXCEPT ![p] = [kind |-> "file", data |-> d, ok |-> @.ok]]
    /\ Changed(IF exists(fs, p) THEN "modify" ELSE "add", p)

EnvMkdir(p) ==
    /\ ~IsRoot(p) /\ isdir(fs, Parent(p)) /\ ~exists(fs, p)
    /\ fs' = [fs EXCEPT ![p] = Dir]
    /\ Changed("mkdir", p)

\* An entry is removed with everything below it.
EnvRemove(p) ==
    /\ exists(fs, p)
    /\ fs' = [q \in DOMAIN fs |-> IF IsPrefix(p, q) THEN Absent ELSE fs[q]]
    /\ Changed(IF isdir(fs, p) THEN "rmdir" ELSE "remove", p)

\* chmod 000
EnvChmod(p) ==
    /\ ~IsRoot(p) /\ exists(fs, p) /\ fs[p].ok
    /\ fs' = [fs EXCEPT ![p].ok = FALSE]
    /\ Changed("chmod", p)

Env ==
    /\ Between
    /\ \E p \in EnvPaths :
        EnvWrite(p) \/ EnvMkdir(p) \/ EnvRemove(p) \/ EnvChmod(p)

Next ==
    \/ Startup
    \/ CycleStart
    \/ Enter
    \/ Copy
    \/ Remove
    \/ Classify
    \/ Update
    \/ Recurse
    \/ Return
    \/ CycleEnd
    \/ Interrupt
    \/ Env

Spec == Init /\ [][Next]_vars

\* A statement of sync_folders, or the END line after its return.
Step ==
    Enter \/ Copy \/ Remove \/ Classify \/ Update \/ Recurse \/ Return
        \/ CycleEnd

\* The program alone, on trees that no other process changes.
NextLive == Startup \/ CycleStart \/ Step \/ Interrupt

\* The interpreter is single-threaded and synchronous: once a cycle has
\* started it keeps executing the statements of sync_folders until the call
\* returns, raises or is interrupted.
SpecLive == Init /\ [][NextLive]_vars /\ WF_vars(Step)


(***************************************************************************)
(* The same program with the environment also acting in the middle of a    *)
(* cycle: a file is removed or made unreadable between two statements of   *)
(* sync_folders.                                                           *)
(***************************************************************************)
Race ==
    /\ pc = "sync" /\ stack # <<>>
    /\ envCount < MaxEnvChanges
    /\ \E p \in EnvPaths :
        /\ isfile(fs, p)
        /\ EnvRemove(p) \/ EnvChmod(p)

NextRace == Next \/ Race

SpecRace == Init /\ [][NextRace]_vars

(***************************************************************************)
(* Vocabulary of the properties.                                           *)
(***************************************************************************)
\* A step of the program itself, not of the environment.
ProgramStep == envCount' = envCount

\* A cycle has run to its END line and nothing has changed since.
CycleDone == pc = "sleep" /\ pending = <<>>

LastLine == log[Len(log)]

HasLine(m) == \E i \in 1..Len(log) : log[i].msg = m

\* The path relative to the root of the tree it lies in.
Rel(p) ==
    IF InSource(p) THEN SubSeq(p, Len(source_folder) + 1, Len(p))
    ELSE SubSeq(p, Len(replica_folder) + 1, Len(p))

SameEntry(f, r) ==
    /\ Get(f, source_folder \o r).kind = Get(f, replica_folder \o r).kind
    /\ Get(f, source_folder \o r).data = Get(f, replica_folder \o r).data

SubtreeConverged(f, r) ==
    \A q \in RelPaths : IsPrefix(r, q) => SameEntry(f, q)

\* A file on one side and a directory on the other.
Mismatch(f, r) ==
    /\ exists(f, source_folder \o r) /\ exists(f, replica_folder \o r)
    /\ Get(f, source_folder \o r).kind # Get(f, replica_folder \o r).kind

\* The top-level entries other than the one the exception was raised in,
\* leaving aside the names dircmp ignores and the type mismatches.
Siblings(f, failed) ==
    {r \in RelPaths :
        /\ Len(r) = 1
        /\ r[1] # failed[1]
        /\ r[1] \notin DEFAULT_IGNORES
        /\ ~Mismatch(f, r)}


(***************************************************************************)
(* Properties.                                                             *)
(***************************************************************************)

\* C1: convergence.  When a cycle has run to its END line, the replica tree
\* has the relative paths, the types and the file contents of the source
\* tree (a cycle that raises never reaches its END line).
ConvergedAfterCycle == CycleDone => Converged(fs)

\* C2: idempotence.  In a cycle that follows a completed cycle with no change
\* of either tree in between, no statement of sync_folders changes the file
\* system and no action line is logged.  (A run of sync_folders that raises
\* ends the process, so the loop makes a second run only after a completed
\* one.)
SecondRunDoesNothing ==
    [][(pc = "sync" /\ cycles >= 2 /\ applied = <<>>)
        => /\ fs' = fs
           /\ \A i \in 1..Len(log') : i > Len(log) => log'[i].msg \notin ActionMsgs
      ]_vars

\* C2 witness: a second cycle with nothing to reconcile has ended after a
\* first cycle that performed at least one action.
SecondRunWitness ==
    /\ pc = "sleep" /\ cycles = 2 /\ applied = <<>>
    /\ \E i \in 1..Len(log) : log[i].msg \in ActionMsgs

\* C3: failure isolation for subtrees.  When the listing of a directory below
\* the roots fails, the sibling entries at the top level are still reconciled:
\* they end equal in source and replica.
ListingFailureIsolated ==
    (raised.action = "list" /\ Rel(raised.path) # <<>>)
        => \A r \in Siblings(fs, Rel(raised.path)) : SubtreeConverged(fs, r)

\* C4: failure isolation for single files under concurrent change.  When a
\* file that was removed or made unreadable in the middle of the cycle makes
\* its hash or copy fail, the other entries are still reconciled.
RaceFailureIsolated ==
    (/\ pc = "crashed" /\ pending # <<>>
     /\ raised.path = pending[Len(pending)].path
     /\ raised.action \in {"read", "copy"})
        => \A r \in Siblings(fs, Rel(raised.path)) : SubtreeConverged(fs, r)

\* C5: an error in a cycle does not end the periodic loop; a program that was
\* started on an existing source and has stopped has been interrupted, its
\* last log line being the shutdown line.
LoopStopsOnlyOnInterrupt ==
    /\ raised # NoExc => pc \in {"loop", "sync", "sleep", "terminated"}
    /\ pc \in {"crashed", "terminated"}
          => LastLine.msg = "TERMINATED Synchronization by user."

\* C6: type mismatch.  After a cycle, no top-level name is a file on one side
\* and a directory on the other: the replica entry has the source's type and
\* content.
TypeMismatchRepaired ==
    CycleDone =>
        \A r \in RelPaths :
            (Len(r) = 1 /\ exists(fs, source_folder \o r))
                => /\ ~Mismatch(fs, r)
                   /\ SameEntry(fs, r)

\* The lines logged since the last START line.
CycleLines ==
    LET starts == {i \in 1..Len(log) :
                      log[i].msg = "START synchronization cycle."}
        last == CHOOSE i \in starts : \A j \in starts : j <= i
    IN  IF starts = {} THEN <<>> ELSE SubSeq(log, last + 1, Len(log))

CycleActions == SelectSeq(CycleLines, LAMBDA l : l.msg \in ActionMsgs)

\* Exactly one change of one file of the source, made on a converged pair,
\* is what the cycle that has just ended had to reconcile.
SingleChange(op) ==
    /\ CycleDone
    /\ Len(applied) = 1
    /\ applied[1].op = op
    /\ applied[1].conv
    /\ InSource(applied[1].path)

\* C7: single difference, single action.  After one file was added to,
\* removed from or modified in the source of a converged pair, the next cycle
\* performs exactly one action, of the matching kind, on that file.
SingleDifferenceSingleAction ==
    \A op \in {"add", "remove", "modify"} :
        SingleChange(op)
            => /\ Len(CycleActions) = 1
               /\ CycleActions[1].msg =
                      (CASE op = "add" -> "Copied file"
                         [] op = "remove" -> "Removed file"
                         [] op = "modify" -> "Updated file")
               /\ CycleActions[1].dst = replica_folder \o Rel(applied[1].path)

ErrorsReported ==
    raised # NoExc
        => \E i \in 1..Len(log) :
              /\ log[i].msg \notin ActionMsgs \cup MainMsgs
              /\ raised.path \in {log[i].src, log[i].dst}

\* C10: source missing at startup.  The step the program takes when the
\* source folder does not exist ends it with status 1 after the one line that
\* says so, with no cycle started and the file system as it was; the program
\* takes no step after that.
SourceMissingExits ==
    [][/\ (pc = "boot" /\ ProgramStep
              /\ Get(fs, source_folder).kind = "none")
          => /\ pc' = "exit1"
             /\ fs' = fs
             /\ cycles' = 0 /\ stack' = <<>>
             /\ log' = <<Line("Source folder does not exist!",
                              source_folder, <<>>)>>
       /\ pc # "exit1"
      ]_vars

\* C10 witness: the program has exited with status 1 and the replica path,
\* which did not exist, has not been created.
SourceMissingWitness ==
    /\ pc = "exit1"
    /\ ~exists(fs, replica_folder)
    /\ ~HasLine("START synchronization cycle.")

\* The indexes of the log lines with message m.
LinesOf(m) == {i \in 1..Len(log) : log[i].msg = m}

\* C11: interrupt.  At every point of the periodic loop (before a cycle, in
\* the middle of one, during the sleep) an interrupt can be taken; the step
\* that takes it appends the shutdown line and changes nothing else but the
\* control state (no mutation, no rollback), the program ends normally, and
\* takes no step afterwards; the log holds the shutdown line exactly once, as
\* its last line, exactly when the program has ended that way.
InterruptShutsDown ==
    [][/\ pc \in {"loop", "sync", "sleep"} => ENABLED Interrupt
       /\ pc' = "terminated"
            => /\ pc \in {"loop", "sync", "sleep"}
               /\ log' = Append(log, Line("TERMINATED Synchronization by user.",
                                          <<>>, <<>>))
               /\ fs' = fs
               /\ raised' = NoExc
               /\ LinesOf("TERMINATED Synchronization by user.") = {}
       /\ pc # "terminated"
      ]_vars

\* C11 witness: the interrupt was taken in the middle of a cycle, right after
\* an action, and the replica was left as the partial cycle had made it.
InterruptMidCycleWitness ==
    /\ pc = "terminated"
    /\ LastLine.msg = "TERMINATED Synchronization by user."
    /\ Len(log) >= 2 /\ log[Len(log) - 1].msg \in ActionMsgs
    /\ ~Converged(fs)

\* C12: cycle framing.  Whenever the program is outside a cycle and has not
\* been interrupted, every cycle has emitted its START line and its END line:
\* the log holds as many END lines as START lines, one START line per cycle,
\* and between two START lines there is an END line.
CyclesFramed ==
    pc \notin {"sync", "terminated"}
        => /\ Cardinality(LinesOf("START synchronization cycle.")) = cycles
           /\ Cardinality(LinesOf("END Synchronization cycle.")) = cycles
           /\ \A i, j \in LinesOf("START synchronization cycle.") :
                  i < j => \E k \in LinesOf("END Synchronization cycle.") :
                              i < k /\ k < j

\* C13 as stated: no step of the program changes an entry of the source tree,
\* and every entry a step changes lies under the replica root.
MutationsUnderReplica ==
    [][ProgramStep
        => \A p \in Paths :
              fs'[p] # fs[p]
                  => ~InSource(p) /\ IsPrefix(replica_folder, p)
      ]_vars

\* C13 as amended: no step of the program, completed or raising, at any depth
\* and in any cycle, changes an entry of the source tree; every entry a step
\* changes is the replica root or lies under it, or is a missing parent
\* directory of the replica root, created together with the root.
SourceReadOnly ==
    [][ProgramStep
        => \A p \in Paths :
              fs'[p] # fs[p]
                  => /\ ~InSource(p)
                     /\ \/ IsPrefix(replica_folder, p)
                        \/ /\ IsPrefix(p, replica_folder)
                           /\ ~exists(fs, p) /\ fs'[p] = Dir
                           /\ ~exists(fs, replica_folder)
                           /\ isdir(fs', replica_folder)
      ]_vars

\* C13 witness: the replica root was created in a first cycle and a file was
\* updated one level down, inside a recursive call, in a later one.
DeepUpdateWitness ==
    /\ pc = "sleep"
    /\ HasLine("Created directory")
    /\ \E i \in LinesOf("Updated file") :
          Len(log[i].dst) = Len(replica_folder) + 2

\* The number of the sequences ss that hold the name n.
Holders(ss, n) == Cardinality({i \in 1..Len(ss) : InSeq(ss[i], n)})

\* C14: partition completeness.  The step that lists a directory pair puts
\* every child name of the source directory or of the replica directory in
\* exactly one of left_only, right_only and common, and the step that
\* classifies the common names puts every one of them in exactly one of
\* common_files and common_dirs.
PartitionComplete ==
    [][(pc = "sync" /\ pc' = "sync" /\ stack # <<>> /\ stack' # <<>>)
        => /\ (Top.at = "enter" /\ Head(stack').at = "loops")
                => \A n \in Children(fs', Top.source)
                               \cup Children(fs', Top.replica) :
                      Holders(<<Head(stack').left_only,
                                Head(stack').right_only,
                                Head(stack').common>>, n) = 1
           /\ (Top.at = "loops" /\ Head(stack').at = "common")
                => \A n \in Children(fs, Top.source)
                               \cap Children(fs, Top.replica) :
                      Holders(<<Head(stack').common_files,
                                Head(stack').common_dirs>>, n) = 1
      ]_vars

\* The name at r is a regular file in the source tree and in the replica tree.
CommonFile(f, r) ==
    isfile(f, source_folder \o r) /\ isfile(f, replica_folder \o r)

\* C15: update only when different.  A step of the program changes or reports
\* the replica's copy of a file present in both trees only if the two contents
\* differ, and then it overwrites it with the source's content and logs
\* "Updated file"; and when a cycle ends, every file present in both trees has
\* the source's content, the differing ones having been overwritten.
UpdatedIffDifferent ==
    [][ProgramStep
        => /\ \A r \in RelPaths :
                 (/\ CommonFile(fs, r)
                  /\ \/ fs'[replica_folder \o r] # fs[replica_folder \o r]
                     \/ \E i \in 1..Len(log') :
                           i > Len(log) /\ log'[i].dst = replica_folder \o r)
                     => /\ ~SameEntry(fs, r)
                        /\ SameEntry(fs', r)
                        /\ log' = Append(log, Line("Updated file",
                                                   source_folder \o r,
                                                   replica_folder \o r))
           /\ (pc = "sync" /\ pc' = "sleep")
                 => \A r \in RelPaths : CommonFile(fs, r) => SameEntry(fs, r)
      ]_vars

\* The directory level an action line belongs to: the replica directory whose
\* activation of sync_folders logged it.
Level(l) == IF l.msg = "Created directory" THEN l.dst ELSE Parent(l.dst)

\* The place of an action in the body of sync_folders.
Rank(l) ==
    CASE l.msg = "Created directory" -> 0
      [] l.msg \in {"Copied directory", "Copied file"} -> 1
      [] l.msg \in {"Removed directory", "Removed file"} -> 2
      [] l.msg = "Updated file" -> 3

\* C16: action order within one directory level.  Among the action lines of
\* one cycle, those of one directory level come in the order creation of the
\* replica directory, copies, removals, updates, and no line of a level comes
\* after a line of a level below it (the recursion comes last); an
\* activation that is past its first statements has its replica directory.
LevelOrdered ==
    /\ \A i, j \in 1..Len(CycleActions) :
          i < j =>
              /\ Level(CycleActions[i]) = Level(CycleActions[j])
                    => Rank(CycleActions[i]) <= Rank(CycleActions[j])
              /\ ~(/\ IsPrefix(Level(CycleActions[j]), Level(CycleActions[i]))
                   /\ Level(CycleActions[j]) # Level(CycleActions[i]))
    /\ (pc = "sync" /\ stack # <<>> /\ Top.at # "enter")
          => isdir(fs, Top.replica)

\* C16 witness: in one cycle a source-only entry was copied and then a
\* replica-only entry was removed at the same level.
CopyThenRemoveWitness ==
    /\ pc = "sleep"
    /\ \E i, j \in 1..Len(CycleActions) :
          /\ i < j
          /\ Rank(CycleActions[i]) = 1 /\ Rank(CycleActions[j]) = 2
          /\ Level(CycleActions[i]) = Level(CycleActions[j])

\* C17: top-down, depth-first order.  Every activation of sync_folders that
\* has called another one has finished the actions on its own entries (its
\* three loops of actions are exhausted), the activation it called is on a
\* common subdirectory pair of its own pair that is no longer in its list of
\* subdirectories to visit, and no subdirectory still in that list has had an
\* action in this cycle: one subdirectory is finished before the next begins.
DepthFirst ==
    /\ \A k \in 2..Len(stack) :
          /\ stack[k].at = "common"
          /\ stack[k].left_only = <<>>
          /\ stack[k].right_only = <<>>
          /\ stack[k].common_files = <<>>
          /\ \E n \in Names :
                /\ stack[k - 1].source = join(stack[k].source, n)
                /\ stack[k - 1].replica = join(stack[k].replica, n)
                /\ ~InSeq(stack[k].common_dirs, n)
    /\ \A k \in 1..Len(stack) :
          \A n \in Names :
              InSeq(stack[k].common_dirs, n)
                  => \A i \in 1..Len(CycleActions) :
                        ~IsPrefix(join(stack[k].replica, n),
                                  Level(CycleActions[i]))

\* C17 witness: the activation on the second common subdirectory is running
\* after the first common subdirectory was reconciled with an action.
SecondSubdirWitness ==
    /\ pc = "sync" /\ Len(stack) = 2
    /\ Top.source = join(source_folder, "b")
    /\ \E i \in 1..Len(CycleActions) :
          Level(CycleActions[i]) = join(replica_folder, "a")

\* C18: replica created on demand.  The first step of the activation on the
\* roots creates the replica path with its missing parent directories and
\* logs "Created directory" for it when the path does not exist, and creates
\* and logs nothing when it exists; and a cycle that created the replica path
\* ends with the replica matching the source.
ReplicaCreatedOnDemand ==
    [][ProgramStep
        => /\ (/\ pc = "sync" /\ pc' # "terminated"
                /\ Len(stack) = 1 /\ Top.at = "enter")
                 => IF exists(fs, replica_folder)
                    THEN fs' = fs /\ log' = log
                    ELSE /\ \A k \in 1..Len(replica_folder) :
                              isdir(fs', SubSeq(replica_folder, 1, k))
                         /\ log' = Append(log, Line("Created directory", <<>>,
                                                    replica_folder))
           /\ (/\ pc = "sync" /\ pc' = "sleep"
                /\ \E i \in 1..Len(CycleActions) :
                      CycleActions[i].msg = "Created directory")
                 => Converged(fs')
      ]_vars

\* C19: cycle termination.  Every activation of sync_folders is on a path of
\* the source tree exactly one level below that of its caller, the root
\* activation being on the source root, and once it has listed its pair that
\* path is an existing directory; and, on trees that are not changed and
\* raise no error, a cycle that has logged its START line reaches its END
\* line and the sleep, unless it is interrupted.
CycleTerminates ==
    /\ [](\A k \in 1..Len(stack) :
            /\ Len(stack[k].source) = Len(source_folder) + Len(stack) - k
            /\ IsPrefix(source_folder, stack[k].source)
            /\ stack[k].at # "enter" => isdir(fs, stack[k].source))
    /\ (pc = "sync" /\ LastLine.msg = "START synchronization cycle.")
          ~> \/ pc = "sleep" /\ LastLine.msg = "END Synchronization cycle."
             \/ pc = "terminated"

\* C19 witness: a cycle that recursed into a common subdirectory and updated
\* a file there has reached its END line.
DeepCycleEndedWitness ==
    /\ pc = "sleep"
    /\ LastLine.msg = "END Synchronization cycle."
    /\ \E i \in 1..Len(CycleActions) :
          Len(Level(CycleActions[i])) > Len(replica_folder)

====
